---- MODULE Spec2Model ----
(***************************************************************************)
(* Model of .github/workflows/check_links.py: the link extractor           *)
(* (extract_links_from_markdown), the link prober (check_url) and the      *)
(* issue reconciler (GitHubIssueManager driven by main).                   *)
(*                                                                         *)
(* Text is a sequence of one-character strings.  The character "H" stands  *)
(* for one occurrence of the scheme prefix matched by https?:// ; every    *)
(* other character is itself.                                              *)
(***************************************************************************)
EXTENDS Integers, Sequences, FiniteSets, TLC

VARIABLES
    \* link extractor
    text, npieces, unique_links, extracted,
    \* link prober
    url, transport, result, probed,
    \* process environment: the requests import, GITHUB_TOKEN, GITHUB_REPOSITORY
    HAS_REQUESTS, env_token, env_repository,
    \* the remote tracker: its tickets, newest first
    tracker,
    \* main: who drives the manager, the failure records, the position in
    \* main, the run, the manager, the mapping main holds, the loop index
    driver, all_issues, pc, run, github_manager, existing_issues, idx,
    \* observation of one run: what create_issue returned for each record,
    \* the pages listed, the POSTs made, whether a list call failed
    returned, list_calls, post_calls, list_failed,
    \* tickets created by earlier runs, direct calls made by a test driver
    created, calls

exVars == <<text, npieces, unique_links, extracted>>
prVars == <<url, transport, result, probed>>
envVars == <<HAS_REQUESTS, env_token, env_repository>>
ghVars == <<envVars, tracker, driver, all_issues, pc, run, github_manager,
            existing_issues, idx, returned, list_calls, post_calls,
            list_failed, created, calls>>
vars == <<exVars, prVars, ghVars>>

None == "None"

Range(s) == {s[i] : i \in 1..Len(s)}

NoDuplicates(s) == \A i, j \in 1..Len(s) : s[i] = s[j] => i = j

\* index of the first occurrence of x in s (0 when absent)
FirstIndex(s, x) ==
    IF x \in Range(s) THEN CHOOSE i \in 1..Len(s) : s[i] = x /\ \A j \in 1..(i-1) : s[j] # x
    ELSE 0

(***************************************************************************)
(* Link extractor                                                          *)
(***************************************************************************)

\* first index >= i of s holding a character of set cs, 0 when there is none
RECURSIVE FindAny(_, _, _)
FindAny(s, cs, i) ==
    IF i > Len(s) THEN 0
    ELSE IF s[i] \in cs THEN i
    ELSE FindAny(s, cs, i + 1)

\* One match attempt of \[([^\]]+)\]\(([^)]+)\) anchored at i: the index of
\* the closing ")" of the match, 0 when the pattern does not match at i.
MarkdownMatchEnd(s, i) ==
    IF i > Len(s) \/ s[i] # "[" THEN 0
    ELSE LET j == FindAny(s, {"]"}, i + 1) IN
         IF j = 0 \/ j = i + 1 THEN 0
         ELSE IF j + 1 > Len(s) \/ s[j + 1] # "(" THEN 0
         ELSE LET k == FindAny(s, {")"}, j + 2) IN
              IF k = 0 \/ k = j + 2 THEN 0 ELSE k

\* group 2 of the match anchored at i that ends at k
MarkdownTarget(s, i, k) ==
    LET j == FindAny(s, {"]"}, i + 1) IN SubSeq(s, j + 2, k - 1)

\* re.findall(markdown_link_pattern, text), group 2 of every match, scanning
\* left to right without overlaps
RECURSIVE MarkdownTargetsFrom(_, _)
MarkdownTargetsFrom(s, i) ==
    IF i > Len(s) THEN <<>>
    ELSE LET k == MarkdownMatchEnd(s, i) IN
         IF k = 0 THEN MarkdownTargetsFrom(s, i + 1)
         ELSE <<MarkdownTarget(s, i, k)>> \o MarkdownTargetsFrom(s, k + 1)

MarkdownTargets(s) == MarkdownTargetsFrom(s, 1)

\* One match attempt of https?://[^\s\)]+ anchored at i: the index of the
\* last character of the (greedy) match, 0 when it does not match at i.
UrlMatchEnd(s, i) ==
    IF i > Len(s) \/ s[i] # "H" THEN 0
    ELSE LET e == FindAny(s, {" ", ")"}, i + 1) IN
         IF e = 0 THEN (IF Len(s) > i THEN Len(s) ELSE 0)
         ELSE IF e = i + 1 THEN 0
         ELSE e - 1

\* re.findall(url_pattern, text)
RECURSIVE PlainUrlsFrom(_, _)
PlainUrlsFrom(s, i) ==
    IF i > Len(s) THEN <<>>
    ELSE LET e == UrlMatchEnd(s, i) IN
         IF e = 0 THEN PlainUrlsFrom(s, i + 1)
         ELSE <<SubSeq(s, i, e)>> \o PlainUrlsFrom(s, e + 1)

PlainUrls(s) == PlainUrlsFrom(s, 1)

\* faulty variant of RemoveDuplicates: the membership test is skipped
RECURSIVE RemoveDuplicatesNoSeen(_, _, _)
RemoveDuplicatesNoSeen(links, seen, out) ==
    IF links = <<>> THEN out
    ELSE RemoveDuplicatesNoSeen(Tail(links), seen \cup {Head(links)},
                                Append(out, Head(links)))

\* the loop over links with the set seen and the list unique_links
RECURSIVE RemoveDuplicates(_, _, _)
RemoveDuplicates(links, seen, out) ==
    IF links = <<>> THEN out
    ELSE IF Head(links) \notin seen
         THEN RemoveDuplicates(Tail(links), seen \cup {Head(links)},
                               Append(out, Head(links)))
         ELSE RemoveDuplicates(Tail(links), seen, out)

extract_links_from_markdown(s) ==
    RemoveDuplicates(MarkdownTargets(s) \o PlainUrls(s), {}, <<>>)

\* inputs: a markdown cell is written out of these fragments
MaxPieces == 5

Pieces ==
    { <<"[", "x", "]", "(">>, <<"H", "x">>, <<"H", "y">>, <<")">>, <<" ">>,
      <<"[">>, <<"y">> }

InitExtract ==
    /\ text = <<>>
    /\ npieces = 0
    /\ unique_links = <<>>
    /\ extracted = FALSE

\* the cell's source grows by one fragment
WriteText ==
    /\ ~extracted
    /\ npieces < MaxPieces
    /\ \E p \in Pieces : text' = text \o p
    /\ npieces' = npieces + 1
    /\ UNCHANGED <<unique_links, extracted, prVars, ghVars>>

\* links = extract_links_from_markdown(source)
ExtractLinks ==
    /\ ~extracted
    /\ unique_links' = extract_links_from_markdown(text)
    /\ extracted' = TRUE
    /\ UNCHANGED <<text, npieces, prVars, ghVars>>

(***************************************************************************)
(* Link prober                                                             *)
(***************************************************************************)

RedirectCodes == {301, 302, 303, 307, 308}

\* return (status, status_code, info)
Returned(status, status_code, info) ==
    [raised |-> FALSE, exc |-> None, status |-> status,
     status_code |-> status_code, info |-> info]

\* an exception of class exc, whose text is msg, propagates
Raise(exc, msg) ==
    [raised |-> TRUE, exc |-> exc, status |-> None, status_code |-> 0,
     info |-> msg]

\* the body of the inner try: urlopen returned a response
SuccessPath(u, t) ==
    IF t.url # u THEN Returned("redirect", t.code, t.url)
    ELSE IF t.code = 404 THEN Returned("404", t.code, t.url)
    ELSE IF t.code >= 400 THEN Returned("error", t.code, t.url)
    ELSE Returned("ok", t.code, t.url)

\* faulty variant of HTTPErrorPath: the 404 test is missing
HTTPErrorPathNo404(u, t) ==
    IF t.code \in RedirectCodes
    THEN IF t.headers = None THEN Raise("Exception", "AttributeError")
         ELSE IF t.location # None /\ t.location # ""
              THEN Returned("redirect", t.code, t.location)
              ELSE Returned("redirect", t.code, t.url)
    ELSE Returned("error", t.code, t.url)

\* faulty variant of HTTPErrorPath: a redirect always reports the response's own URL
HTTPErrorPathNoLocation(u, t) ==
    IF t.code = 404 THEN Returned("404", t.code, t.url)
    ELSE IF t.code \in RedirectCodes
    THEN Returned("redirect", t.code, t.url)
    ELSE Returned("error", t.code, t.url)

\* the except urllib.error.HTTPError handler; e.headers.get raises when the
\* error carries no headers object
HTTPErrorPath(u, t) ==
    IF t.code = 404 THEN Returned("404", t.code, t.url)
    ELSE IF t.code \in RedirectCodes
    THEN IF t.headers = None THEN Raise("Exception", "AttributeError")
         ELSE IF t.location # None /\ t.location # ""
              THEN Returned("redirect", t.code, t.location)
              ELSE Returned("redirect", t.code, t.url)
    ELSE Returned("error", t.code, t.url)

\* the inner try statement: a triple, or an exception that leaves it
InnerTry(u, t) ==
    CASE t.kind = "response"  -> SuccessPath(u, t)
      [] t.kind = "HTTPError" -> HTTPErrorPath(u, t)
      [] OTHER                -> Raise(t.kind, t.reason)

\* faulty variant of check_url: the last handler (except Exception) is missing
check_url_no_catch_all(u, t) ==
    LET r == InnerTry(u, t) IN
    IF ~r.raised THEN r
    ELSE IF r.exc = "URLError" THEN Returned("error", 0, r.info)
    ELSE r

\* the outer try statement: what leaves the inner one is a URLError (caught
\* by the first handler) or any other Exception (caught by the second)
check_url(u, t) ==
    LET r == InnerTry(u, t) IN
    IF ~r.raised THEN r
    ELSE IF r.exc = "URLError" THEN Returned("error", 0, r.info)
    ELSE Returned("error", 0, r.info)

\* inputs
ProbeUrls == {"u", "v"}
FinalUrls == {"u", "v", "w"}
Codes == {200, 204, 301, 302, 303, 304, 307, 308, 400, 404, 500}
Locations == {None, "", "loc"}

Response(c, f) ==
    [kind |-> "response", code |-> c, url |-> f, headers |-> "Message",
     location |-> None, reason |-> None]

HTTPError(c, f, h, l) ==
    [kind |-> "HTTPError", code |-> c, url |-> f, headers |-> h,
     location |-> l, reason |-> None]

Failure(k, r) ==
    [kind |-> k, code |-> 0, url |-> None, headers |-> None,
     location |-> None, reason |-> r]

\* what urlopen can hand to check_url: a response, an HTTPError carrying the
\* response's headers, a URLError, any other exception (or one raised by
\* Request itself)
Transports ==
    {Response(c, f) : c \in Codes, f \in FinalUrls}
    \cup {HTTPError(c, f, "Message", l) : c \in Codes, f \in FinalUrls, l \in Locations}
    \cup {Failure("URLError", r) : r \in {"timed out", "refused"}}
    \cup {Failure("Exception", r) : r \in {"ValueError", "InvalidURL"}}

\* the same, and an HTTPError whose headers attribute is None, so that the
\* handler itself raises
TransportsWithFault ==
    Transports \cup {HTTPError(c, f, None, None) : c \in Codes, f \in FinalUrls}

ExtractIdle ==
    /\ text = <<>>
    /\ npieces = 0
    /\ unique_links = <<>>
    /\ extracted = FALSE

ProbeIdle ==
    /\ url = None
    /\ transport = Failure("Exception", None)
    /\ result = Raise(None, None)
    /\ probed = FALSE

InitProbe ==
    /\ url \in ProbeUrls
    /\ transport \in Transports
    /\ result = Raise(None, None)
    /\ probed = FALSE

InitProbeFault ==
    /\ url \in ProbeUrls
    /\ transport \in TransportsWithFault
    /\ result = Raise(None, None)
    /\ probed = FALSE

\* status, status_code, info = check_url(link)
CheckUrl ==
    /\ ~probed
    /\ result' = check_url(url, transport)
    /\ probed' = TRUE
    /\ UNCHANGED <<url, transport, exVars, ghVars>>


(***************************************************************************)
(* Issue reconciler                                                        *)
(*                                                                         *)
(* A ticket body is a sequence of tokens: the fixed pieces of the template *)
(* are one token each, every backtick is a token of its own, and the URL   *)
(* is spelled character by character.                                      *)
(***************************************************************************)

\* the backtick character
BT == "BACKTICK"

per_page == 100
TitleLimit == 60
TitleKeep == 57

\* create_issue's "no ticket" return value (None); ticket numbers start at 1
NoTicket == 0

Truthy(x) == x \notin {None, ""}

EmptyMap == [x \in {} |-> 0]

MapPut(m, k, v) == [x \in DOMAIN m \cup {k} |-> IF x = k THEN v ELSE m[x]]

\* faulty variant of NewSession: the token is not required
NewSessionNoToken(has_requests, token, repository) ==
    has_requests /\ Truthy(repository)

\* __init__: a session exists only with requests, a token and a repository
NewSession(has_requests, token, repository) ==
    has_requests /\ Truthy(token) /\ Truthy(repository)

\* GitHubIssueManager(): token and repository come from the environment
NewManager(has_requests, tok, repo) ==
    [token |-> tok, repository |-> repo,
     session |-> NewSession(has_requests, tok, repo)]

\* not self.session or not self.repository
Disabled(mgr) == ~mgr.session \/ ~Truthy(mgr.repository)

Upper(status) ==
    CASE status = "redirect" -> "REDIRECT"
      [] status = "error"    -> "ERROR"
      [] OTHER               -> status

CodeText(c) ==
    CASE c = 404 -> "404"
      [] c = 301 -> "301"
      [] c = 500 -> "500"
      [] OTHER   -> "0"

\* Path(issue_data['notebook']).name
NotebookName(path) == path[Len(path)]

IssueTitle(d) ==
    <<"Broken link: ">> \o
    (IF Len(d.url) > TitleLimit
     THEN SubSeq(d.url, 1, TitleKeep) \o <<".", ".", ".">>
     ELSE d.url)

IssueBody(d) ==
    <<"## Broken Link Detected\n\n", "**Status:** ", Upper(d.status), "\n",
      "**URL:** ", BT>> \o d.url \o
    <<BT, "\n", "**Notebook:** ", BT, NotebookName(d.notebook), BT, "\n",
      "**Cell:** ", d.cell, "\n\n">> \o
    (IF d.status_code # 0
     THEN <<"**HTTP Status Code:** ", CodeText(d.status_code), "\n\n">>
     ELSE <<>>) \o
    (IF d.info # "" THEN <<"**Additional Info:** ", d.info, "\n\n">> ELSE <<>>) \o
    <<"---\n\nThis issue was automatically created ...">>

\* re.search of the URL marker in body (the marker text, a backtick, one or
\* more characters other than a backtick, a backtick): group 1 of the leftmost
\* match, <<>> when there is none (a match captures at least one character)
RECURSIVE SearchUrlFrom(_, _)
SearchUrlFrom(body, i) ==
    IF i + 1 > Len(body) THEN <<>>
    ELSE IF body[i] = "**URL:** " /\ body[i + 1] = BT
    THEN LET e == FindAny(body, {BT}, i + 2) IN
         IF e = 0 \/ e = i + 2 THEN SearchUrlFrom(body, i + 1)
         ELSE SubSeq(body, i + 2, e - 1)
    ELSE SearchUrlFrom(body, i + 1)

SearchUrl(body) == SearchUrlFrom(body, 1)

\* the for loop over one page of issues.  re.search raises TypeError at the
\* first issue whose body is null, and the loop ends there (raised); every
\* issue before it whose body holds the marker sets url_to_issue[url], a
\* later issue overwriting an earlier one with the same URL.
ScanIssues(issues, map) ==
    LET nulls == {i \in 1..Len(issues) : issues[i].body_null}
        stop == IF nulls = {} THEN Len(issues) + 1
                ELSE CHOOSE i \in nulls : \A j \in nulls : i <= j
        mark == [i \in 1..(stop - 1) |-> SearchUrl(issues[i].body)]
        found == {i \in 1..(stop - 1) : mark[i] # <<>>}
        urls == {mark[i] : i \in found}
        last(u) == CHOOSE i \in found :
                       mark[i] = u /\ \A j \in found : mark[j] = u => j <= i
    IN  [map |-> [u \in DOMAIN map \cup urls |->
                     IF u \in urls THEN issues[last(u)].number ELSE map[u]],
         raised |-> nulls # {}]

\* the tracker's answer to a list call: the open tickets labelled
\* broken-link, newest first
IsListed(t) == t.state = "open" /\ "broken-link" \in t.labels

Listing(tr) == SelectSeq(tr, IsListed)

Min(a, b) == IF a < b THEN a ELSE b

PageOf(listing, page) ==
    SubSeq(listing, (page - 1) * per_page + 1, Min(page * per_page, Len(listing)))

\* the while loop of get_existing_issues from page on; the list call for
\* page failPage raises (failPage = 0: none does); any exception ends the
\* loop with the mapping built so far
RECURSIVE FetchPages(_, _, _, _, _)
FetchPages(listing, page, failPage, map, pages) ==
    IF page = failPage
    THEN [map |-> map, pages |-> Append(pages, page), failed |-> TRUE]
    ELSE LET issues == PageOf(listing, page)
             r == ScanIssues(issues, map)
             called == Append(pages, page)
         IN  IF issues = <<>>
             THEN [map |-> map, pages |-> called, failed |-> FALSE]
             ELSE IF r.raised
             THEN [map |-> r.map, pages |-> called, failed |-> FALSE]
             ELSE IF Len(issues) < per_page
             THEN [map |-> r.map, pages |-> called, failed |-> FALSE]
             ELSE FetchPages(listing, page + 1, failPage, r.map, called)

get_existing_issues(mgr, tr, failPage) ==
    IF Disabled(mgr)
    THEN [map |-> EmptyMap, pages |-> <<>>, failed |-> FALSE]
    ELSE FetchPages(Listing(tr), 1, failPage, EmptyMap, <<>>)

\* the ticket the tracker stores for an accepted POST
NewTicket(tr, d) ==
    [number |-> Len(tr) + 1, state |-> "open",
     labels |-> {"broken-link", "automated"}, title |-> IssueTitle(d),
     body_null |-> FALSE, body |-> IssueBody(d)]

\* what one create_issue call did: its return value, whether it raised, the
\* tracker after it, the pages it listed, the POST it made
Outcome(ret, raised, tr, pages, failed, posts) ==
    [ret |-> ret, raised |-> raised, tracker |-> tr, pages |-> pages,
     failed |-> failed, posts |-> posts]

\* faulty variant of CacheAfter: a created ticket is entered into the mapping
CacheAfterUpdated(cache, d, o) ==
    IF o.ret # NoTicket THEN MapPut(cache, d.url, o.ret) ELSE cache

\* the dict passed as existing_issues, after the call: create_issue only
\* reads it
CacheAfter(cache, d, o) == cache

\* faulty variant of SubmitIssue: no try around the POST
SubmitIssueNoTry(d, tr, postOk, pages, failed) ==
    IF postOk
    THEN Outcome(Len(tr) + 1, FALSE, <<NewTicket(tr, d)>> \o tr, pages, failed,
                 <<[url |-> d.url, ok |-> TRUE]>>)
    ELSE Outcome(NoTicket, TRUE, tr, pages, failed,
                 << [url |-> d.url, ok |-> FALSE] >>)

\* the try around session.post: the new ticket's number, or None
SubmitIssue(d, tr, postOk, pages, failed) ==
    IF postOk
    THEN Outcome(Len(tr) + 1, FALSE, <<NewTicket(tr, d)>> \o tr, pages, failed,
                 <<[url |-> d.url, ok |-> TRUE]>>)
    ELSE Outcome(NoTicket, FALSE, tr, pages, failed,
                 << [url |-> d.url, ok |-> FALSE] >>)

\* issue_data['url'] in existing_issues
KnownIssue(d, existing) == d.url \in DOMAIN existing

\* create_issue(issue_data, existing_issues); given = FALSE stands for
\* existing_issues is None
create_issue(mgr, d, given, cache, tr, failPage, postOk) ==
    IF Disabled(mgr) THEN Outcome(NoTicket, FALSE, tr, <<>>, FALSE, <<>>)
    ELSE LET f == IF given
                  THEN [map |-> cache, pages |-> <<>>, failed |-> FALSE]
                  ELSE get_existing_issues(mgr, tr, failPage)
         IN  IF KnownIssue(d, f.map)
             THEN Outcome(f.map[d.url], FALSE, tr, f.pages, f.failed, <<>>)
             ELSE SubmitIssue(d, tr, postOk, f.pages, f.failed)

(***************************************************************************)
(* Inputs of the reconciler                                                *)
(***************************************************************************)

MaxRecords == 2
MaxRuns == 2
MaxCalls == 1

IssueData(nb, cell, u, status, code, info) ==
    [notebook |-> nb, cell |-> cell, url |-> u, status |-> status,
     status_code |-> code, info |-> info]

\* failure records check_notebook_links can produce: the same URL in two
\* cells, a second URL, and a URL that holds a backtick
RecA1 == IssueData(<<"css04-networks-code", "n1.ipynb">>, "3", <<"a">>, "404", 404, "a")
RecA2 == IssueData(<<"css04-networks-code", "n2.ipynb">>, "7", <<"a">>, "404", 404, "a")
RecB  == IssueData(<<"css04-networks-code", "n1.ipynb">>, "3", <<"b">>, "error", 0, "timed out")
RecQ  == IssueData(<<"css04-networks-code", "n2.ipynb">>, "1", <<"a", BT, "b">>, "redirect", 301, "loc")

IssueRecords == {RecA1, RecA2, RecB, RecQ}

RECURSIVE SeqsUpTo(_, _)
SeqsUpTo(S, n) ==
    IF n = 0 THEN {<<>>}
    ELSE LET shorter == SeqsUpTo(S, n - 1) IN
         shorter \cup {Append(q, x) : q \in {r \in shorter : Len(r) = n - 1},
                                       x \in S}

\* all_issues: the records of one run, no record twice
IssueLists == {q \in SeqsUpTo(IssueRecords, MaxRecords) : NoDuplicates(q)}

\* tickets found in the tracker before the first run (numbers are set by
\* Numbered): one filed for a failure record, one written by hand with no
\* URL line, one with a null body, and a closed one
Filed(d) ==
    [number |-> 0, state |-> "open", labels |-> {"broken-link", "automated"},
     title |-> IssueTitle(d), body_null |-> FALSE, body |-> IssueBody(d)]

ByHand ==
    [number |-> 0, state |-> "open", labels |-> {"broken-link"},
     title |-> <<"docs">>, body_null |-> FALSE, body |-> <<"see the wiki">>]

NullBody == [ByHand EXCEPT !.body_null = TRUE, !.body = <<>>]

Closed(t) == [t EXCEPT !.state = "closed"]

\* tr with its tickets numbered, newest (first) highest
Numbered(tr) == [i \in 1..Len(tr) |-> [tr[i] EXCEPT !.number = Len(tr) - i + 1]]

Fill(n) == [i \in 1..n |-> ByHand]

SmallTrackers ==
    {Numbered(q) : q \in { <<>>, <<Filed(RecA1)>>,
                           <<NullBody>>, <<Closed(Filed(RecA1))>>,
                           <<NullBody, Filed(RecA1)>>,
                           <<Filed(RecA1), NullBody>> }}

\* trackers whose listing spans several pages
LargeTrackers ==
    {Numbered(front \o Fill(n) \o back) :
        front \in { <<>>, <<NullBody>> },
        n \in {per_page - 1, per_page, 2 * per_page},
        back \in { <<>>, <<Filed(RecA1)>> }}

EnvValues == {None, "", "set"}

ReconcilerIdle ==
    /\ HAS_REQUESTS = FALSE
    /\ env_token = None
    /\ env_repository = None
    /\ tracker = <<>>
    /\ driver = None
    /\ all_issues = <<>>
    /\ pc = "idle"
    /\ run = 1
    /\ github_manager = NewManager(FALSE, None, None)
    /\ existing_issues = EmptyMap
    /\ idx = 1
    /\ returned = <<>>
    /\ list_calls = <<>>
    /\ post_calls = <<>>
    /\ list_failed = FALSE
    /\ created = {}
    /\ calls = 0

InitReconciler ==
    /\ HAS_REQUESTS \in BOOLEAN
    /\ env_token \in EnvValues
    /\ env_repository \in EnvValues
    /\ \/ driver = "main" /\ tracker \in SmallTrackers /\ all_issues \in IssueLists
       \/ driver = "test" /\ tracker \in SmallTrackers \cup LargeTrackers
                          /\ all_issues = <<>>
    /\ pc = "summary"
    /\ run = 1
    /\ github_manager = NewManager(FALSE, None, None)
    /\ existing_issues = EmptyMap
    /\ idx = 1
    /\ returned = <<>>
    /\ list_calls = <<>>
    /\ post_calls = <<>>
    /\ list_failed = FALSE
    /\ created = {}
    /\ calls = 0

\* the list calls that can fail during one fetch: none (0), or one of the
\* pages the loop would ask for
FailPages(tr) == 0..((Len(Listing(tr)) \div per_page) + 1)

(***************************************************************************)
(* main                                                                    *)
(***************************************************************************)

\* if not all_issues: ... return
NoIssues ==
    /\ pc = "summary"
    /\ driver = "main"
    /\ all_issues = <<>>
    /\ pc' = "done"
    /\ UNCHANGED <<exVars, prVars, envVars, tracker, driver, all_issues, run, github_manager,
                   existing_issues, idx, returned, list_calls, post_calls,
                   list_failed, created, calls>>

\* github_manager = GitHubIssueManager()
Construct ==
    /\ pc = "summary"
    /\ driver = "main" => all_issues # <<>>
    /\ github_manager' = NewManager(HAS_REQUESTS, env_token, env_repository)
    /\ pc' = IF driver = "main" THEN "constructed" ELSE "test"
    /\ UNCHANGED <<exVars, prVars, envVars, tracker, driver, all_issues, run, existing_issues,
                   idx, returned, list_calls, post_calls, list_failed, created,
                   calls>>

\* else: print("GitHub issue creation skipped ...")
SkipIssues ==
    /\ pc = "constructed"
    /\ ~github_manager.session
    /\ pc' = "done"
    /\ UNCHANGED <<exVars, prVars, envVars, tracker, driver, all_issues, run, github_manager,
                   existing_issues, idx, returned, list_calls, post_calls,
                   list_failed, created, calls>>

\* existing_issues = github_manager.get_existing_issues()
FetchExisting ==
    /\ pc = "constructed"
    /\ github_manager.session
    /\ \E failPage \in FailPages(tracker) :
          LET f == get_existing_issues(github_manager, tracker, failPage) IN
          /\ existing_issues' = f.map
          /\ list_calls' = list_calls \o f.pages
          /\ list_failed' = f.failed
    /\ idx' = 1
    /\ pc' = "reconciling"
    /\ UNCHANGED <<exVars, prVars, envVars, tracker, driver, all_issues, run, github_manager,
                   returned, post_calls, created, calls>>

\* one turn of: for issue in all_issues:
\*     github_manager.create_issue(issue, existing_issues)
CreateIssue ==
    /\ pc = "reconciling"
    /\ idx <= Len(all_issues)
    /\ \E postOk \in BOOLEAN :
          LET d == all_issues[idx]
              o == create_issue(github_manager, d, TRUE, existing_issues,
                                tracker, 0, postOk)
          IN  /\ tracker' = o.tracker
              /\ existing_issues' = CacheAfter(existing_issues, d, o)
              /\ list_calls' = list_calls \o o.pages
              /\ post_calls' = post_calls \o o.posts
              /\ list_failed' = (list_failed \/ o.failed)
              /\ created' = created \cup
                     {[run |-> run, url |-> p.url, number |-> o.ret] :
                          p \in {q \in Range(o.posts) : q.ok}}
              /\ IF o.raised
                 THEN pc' = "aborted" /\ UNCHANGED <<returned, idx>>
                 ELSE /\ returned' = Append(returned, o.ret)
                      /\ idx' = idx + 1
                      /\ pc' = IF idx = Len(all_issues) THEN "done"
                               ELSE "reconciling"
    /\ UNCHANGED <<exVars, prVars, envVars, driver, all_issues, run,
                   github_manager, calls>>

\* the workflow runs the script again over the same failure records
NextRun ==
    /\ pc = "done"
    /\ run < MaxRuns
    /\ run' = run + 1
    /\ pc' = "summary"
    /\ github_manager' = NewManager(FALSE, None, None)
    /\ existing_issues' = EmptyMap
    /\ idx' = 1
    /\ returned' = <<>>
    /\ list_calls' = <<>>
    /\ post_calls' = <<>>
    /\ list_failed' = FALSE
    /\ UNCHANGED <<exVars, prVars, envVars, tracker, driver, all_issues, created, calls>>

\* between two runs somebody closes the ticket the run has filed last
CloseTicket ==
    /\ pc = "done"
    /\ run < MaxRuns
    /\ \E c \in created :
          LET i == Len(tracker) - c.number + 1 IN
          /\ c.run = run
          /\ \A c2 \in created : c2.run = run => c2.number <= c.number
          /\ tracker[i].state = "open"
          /\ tracker' = [tracker EXCEPT ![i] = Closed(tracker[i])]
    /\ UNCHANGED <<exVars, prVars, envVars, driver, all_issues, pc, run, github_manager,
                   existing_issues, idx, returned, list_calls, post_calls,
                   list_failed, created, calls>>

(***************************************************************************)
(* direct calls of the manager's methods (a test driver)                   *)
(***************************************************************************)

\* github_manager.get_existing_issues()
CallGetExisting ==
    /\ pc = "test"
    /\ calls < MaxCalls
    /\ \E failPage \in FailPages(tracker) :
          LET f == get_existing_issues(github_manager, tracker, failPage) IN
          /\ existing_issues' = f.map
          /\ list_calls' = f.pages
          /\ list_failed' = f.failed
    /\ calls' = calls + 1
    /\ UNCHANGED <<exVars, prVars, envVars, tracker, driver, all_issues, pc, run,
                   github_manager, idx, returned, post_calls, created>>

\* github_manager.create_issue(issue_data) or
\* github_manager.create_issue(issue_data, existing_issues)
CallCreateIssue ==
    /\ pc = "test"
    /\ calls < MaxCalls
    /\ \E d \in IssueRecords, given \in BOOLEAN, postOk \in BOOLEAN,
          failPage \in FailPages(tracker) :
          LET o == create_issue(github_manager, d, given, existing_issues,
                                tracker, failPage, postOk)
          IN  /\ (given => failPage = 0)
              /\ tracker' = o.tracker
              /\ existing_issues' = IF given
                                    THEN CacheAfter(existing_issues, d, o)
                                    ELSE existing_issues
              /\ list_calls' = list_calls \o o.pages
              /\ post_calls' = post_calls \o o.posts
              /\ list_failed' = (list_failed \/ o.failed)
              /\ returned' = Append(returned, o.ret)
              /\ created' = created
    /\ calls' = calls + 1
    /\ UNCHANGED <<exVars, prVars, envVars, driver, all_issues, pc, run,
                   github_manager, idx>>

(***************************************************************************)
(* Specifications                                                          *)
(***************************************************************************)

NextExtract == WriteText \/ ExtractLinks

InitExtractSpec == InitExtract /\ ProbeIdle /\ ReconcilerIdle

SpecExtract == InitExtractSpec /\ [][NextExtract]_vars

NextProbe == CheckUrl

InitProbeSpec == InitProbe /\ ExtractIdle /\ ReconcilerIdle

SpecProbe == InitProbeSpec /\ [][NextProbe]_vars

InitProbeFaultSpec == InitProbeFault /\ ExtractIdle /\ ReconcilerIdle

SpecProbeFault == InitProbeFaultSpec /\ [][NextProbe]_vars

Next ==
    \/ NoIssues
    \/ Construct
    \/ SkipIssues
    \/ FetchExisting
    \/ CreateIssue
    \/ NextRun
    \/ CloseTicket
    \/ CallGetExisting
    \/ CallCreateIssue

Init == InitReconciler /\ ExtractIdle /\ ProbeIdle

Spec == Init /\ [][Next]_vars

(***************************************************************************)
(* Claims: link extractor                                                  *)
(***************************************************************************)

CombinedLinks == MarkdownTargets(text) \o PlainUrls(text)

ExampleBoth ==
    <<"[", "x", "]", "(", "H", "x", ")", " ", "H", "x">>

ExamplePlain == <<"H", "x", " ", "H", "y">>

\* C8: the extracted list holds no string twice; it holds exactly the
\* markdown-link targets and the bare-URL matches of the text, ordered by
\* first occurrence in (targets, then bare matches); a URL that is both a
\* markdown target and a bare match stands once, where the markdown targets
\* put it.
C8_ExtractUniqueOrdered ==
    extracted =>
        /\ NoDuplicates(unique_links)
        /\ Range(unique_links) = Range(CombinedLinks)
        /\ \A i, j \in 1..Len(unique_links) :
               i < j => FirstIndex(CombinedLinks, unique_links[i])
                            < FirstIndex(CombinedLinks, unique_links[j])
        /\ \A t \in Range(MarkdownTargets(text)) \cap Range(PlainUrls(text)) :
               FirstIndex(unique_links, t) =
                   Cardinality(Range(SubSeq(MarkdownTargets(text), 1,
                                            FirstIndex(MarkdownTargets(text), t))))
        /\ (text = ExampleBoth => unique_links = << <<"H", "x">> >>)
        /\ (text = ExamplePlain => unique_links = << <<"H", "x">>, <<"H", "y">> >>)

C8_Witness ==
    /\ extracted
    /\ text = ExampleBoth
    /\ Len(CombinedLinks) = 3
    /\ unique_links = << <<"H", "x">> >>

(***************************************************************************)
(* Claims: link prober                                                     *)
(***************************************************************************)

Statuses == {"ok", "404", "redirect", "error"}

\* C5: check_url returns one triple for every transport outcome and never
\* raises; its status is one of the four; a transport error, any other
\* exception and an exception raised inside the HTTPError handler give
\* ('error', 0, ...); only a response with a code below 400 at the requested
\* URL is ok.
C5_NeverRaises ==
    probed =>
        /\ ~result.raised
        /\ result.status \in Statuses
        /\ (transport.kind \in {"URLError", "Exception"}
               => result.status = "error" /\ result.status_code = 0)
        /\ (transport.kind = "HTTPError" /\ transport.headers = None
                /\ transport.code \in RedirectCodes
               => result.status = "error" /\ result.status_code = 0)
        /\ (transport.kind = "HTTPError" /\ transport.code # 404
                /\ transport.code \notin RedirectCodes
               => result.status = "error")
        /\ (transport.kind = "response" /\ transport.url = url
                /\ transport.code >= 400 /\ transport.code # 404
               => result.status = "error")
        /\ (result.status = "ok"
               => transport.kind = "response" /\ transport.code < 400)

C5_Witness ==
    /\ probed
    /\ transport.kind = "HTTPError"
    /\ transport.headers = None
    /\ transport.code \in RedirectCodes
    /\ result = Returned("error", 0, "AttributeError")

Is404 == result.status = "404" /\ result.status_code = 404

\* C6 as stated: every probe that ends with code 404, direct or raised,
\* whatever the final URL, returns ('404', 404, ...).
C6_Original ==
    probed /\ transport.kind \in {"response", "HTTPError"} /\ transport.code = 404
        => Is404

\* C6 amended: a raised 404 returns ('404', 404, ...) whatever its URL; a
\* direct 404 response does so when its final URL is the requested URL, and
\* is reported as ('redirect', 404, final URL) when it is not.
C6_NotFound ==
    probed /\ transport.code = 404 =>
        /\ (transport.kind = "HTTPError" => Is404)
        /\ (transport.kind = "response" /\ transport.url = url => Is404)
        /\ (transport.kind = "response" /\ transport.url # url
               => result = Returned("redirect", 404, transport.url))

C6_Witness ==
    /\ probed
    /\ transport.kind = "HTTPError"
    /\ transport.code = 404
    /\ transport.url # url
    /\ Is404

RedirectOnResponse ==
    transport.kind = "response" /\ transport.url # url
        => result = Returned("redirect", transport.code, transport.url)

\* C7 as stated: redirect whenever the resolved location differs from the
\* requested URL; for a response the target is the final URL; for a raised
\* 301/302/303/307/308 the target is the Location header if present, else
\* the response's own URL.
C7_Original ==
    probed =>
        /\ (transport.kind \in {"response", "HTTPError"} /\ transport.url # url
               => result.status = "redirect")
        /\ RedirectOnResponse
        /\ (transport.kind = "HTTPError" /\ transport.code \in RedirectCodes
               => result = Returned("redirect", transport.code,
                                    IF transport.location # None
                                    THEN transport.location ELSE transport.url))

\* C7 amended: a response whose final URL differs from the requested URL is
\* a redirect to that final URL, whatever its code; a raised
\* 301/302/303/307/308 is a redirect with that code, to the Location header
\* when it is present and not empty, else to the response's own URL; a
\* raised error with another code is never a redirect, even when its URL
\* differs from the requested one.
C7_Redirect ==
    probed =>
        /\ RedirectOnResponse
        /\ (transport.kind = "HTTPError" /\ transport.code \in RedirectCodes
               => result = Returned("redirect", transport.code,
                                    IF transport.location \notin {None, ""}
                                    THEN transport.location ELSE transport.url))
        /\ (transport.kind = "HTTPError" /\ transport.code \notin RedirectCodes
               => result.status # "redirect")

C7_Witness ==
    /\ probed
    /\ transport.kind = "HTTPError"
    /\ transport.code = 301
    /\ transport.location = "loc"
    /\ result = Returned("redirect", 301, "loc")

(***************************************************************************)
(* Claims: issue reconciler                                                *)
(***************************************************************************)

MainRan == driver = "main" /\ github_manager.session

\* the POST calls of this run made for URL u
PostsFor(u) == {k \in 1..Len(post_calls) : post_calls[k].url = u}

\* C1: in one run of main, two failure records with the same URL cause
\* exactly one POST for that URL when it was not in the fetched mapping (and
\* none when it was), and create_issue returns the same ticket id for both.
C1_OneTicketPerUrl ==
    MainRan /\ pc = "done" =>
        \A i, j \in 1..Len(all_issues) :
            i < j /\ all_issues[i].url = all_issues[j].url =>
                /\ Cardinality(PostsFor(all_issues[i].url)) =
                       (IF all_issues[i].url \in DOMAIN existing_issues
                        THEN 0 ELSE 1)
                /\ returned[i] = returned[j]

TicketOf(c) == tracker[Len(tracker) - c.number + 1]

\* the numbers of the listed tickets filed for URL u before this run began
FiledBeforeRun(u) ==
    LET before == Len(tracker) - Cardinality({k \in 1..Len(post_calls) : post_calls[k].ok})
    IN  {t.number : t \in {x \in Range(tracker) :
                              /\ x.number <= before
                              /\ IsListed(x)
                              /\ \E d \in IssueRecords :
                                     d.url = u /\ ~x.body_null /\ x.body = IssueBody(d)}}

\* C2: at the end of a later run whose list calls all succeeded, a URL for
\* which an earlier run created a ticket that is still open and labelled
\* broken-link got no POST in this run, and create_issue returned the id of
\* a ticket filed for that URL before the run.
C2_NoDuplicateAcrossRuns ==
    MainRan /\ pc = "done" /\ ~list_failed =>
        \A c \in created :
            c.run < run /\ IsListed(TicketOf(c)) =>
                /\ PostsFor(c.url) = {}
                /\ \A i \in 1..Len(all_issues) :
                       all_issues[i].url = c.url =>
                           returned[i] \in FiledBeforeRun(c.url)

CredentialAbsent == ~Truthy(env_token) \/ ~Truthy(env_repository)

\* C3: with the token or the repository absent no list call and no POST is
\* ever made, get_existing_issues returns the empty mapping, every
\* create_issue returns None, and a run of main reports no ticket id.
C3_DisabledNoCalls ==
    CredentialAbsent =>
        /\ ~github_manager.session
        /\ list_calls = <<>>
        /\ post_calls = <<>>
        /\ existing_issues = EmptyMap
        /\ \A i \in 1..Len(returned) : returned[i] = NoTicket
        /\ (driver = "main" => returned = <<>>)
        /\ created = {}
        /\ pc # "reconciling"

C3_Witness ==
    /\ CredentialAbsent
    /\ Truthy(env_repository)
    /\ HAS_REQUESTS
    /\ pc = "test"
    /\ calls = 1
    /\ returned = <<NoTicket>>

\* the state right after one get_existing_issues call of an enabled manager
JustFetched ==
    /\ github_manager.session
    /\ \/ driver = "main" /\ pc = "reconciling" /\ idx = 1
       \/ driver = "test" /\ pc = "test" /\ calls = 1 /\ returned = <<>>

\* the mapping built from all of items: each URL found in a body, with the
\* number of the last item that holds it
MappingOf(items) ==
    LET mark == [i \in 1..Len(items) |->
                    IF items[i].body_null THEN <<>> ELSE SearchUrl(items[i].body)]
        found == {i \in 1..Len(items) : mark[i] # <<>>}
    IN  [u \in {mark[i] : i \in found} |->
            items[CHOOSE i \in found :
                      mark[i] = u /\ \A j \in found : mark[j] = u => j <= i].number]

\* C4: the fetch lists pages 1, 2, 3, ... in order, goes on to the next page
\* only after a page of exactly 100 items, stops after the first page with
\* fewer than 100 items, and returns the mapping built from exactly the
\* items of the pages it got; 100 items on page 1 and none on page 2 make
\* two list calls.
C4_Pagination ==
    JustFetched =>
        LET L == Listing(tracker)
            n == Len(list_calls)
            got == IF list_failed THEN n - 1 ELSE n
        IN  /\ n >= 1
            /\ \A k \in 1..n : list_calls[k] = k
            /\ \A k \in 1..(n - 1) : Len(PageOf(L, k)) = per_page
            /\ (~list_failed => Len(PageOf(L, n)) < per_page)
            /\ existing_issues = MappingOf(SubSeq(L, 1, Min(Len(L), got * per_page)))
            /\ (~list_failed /\ Len(L) = per_page => list_calls = <<1, 2>>)

\* the records processed so far whose URL is not in the fetched mapping
AbsentRecords ==
    SelectSeq([i \in 1..Len(returned) |-> i],
              LAMBDA i : all_issues[i].url \notin DOMAIN existing_issues)

\* C9: a run of main never aborts on a tracker error: after a failed list
\* call the run goes on to reconcile; every record is processed; each
\* record whose URL is not in the mapping gets its own POST, and
\* create_issue returns None for it exactly when that POST failed.
C9_TrackerErrorsDoNotAbort ==
    driver = "main" =>
        /\ pc # "aborted"
        /\ (pc = "done" /\ github_manager.session
               => Len(returned) = Len(all_issues))
        /\ (pc \in {"reconciling", "done"} =>
               /\ Len(post_calls) = Len(AbsentRecords)
               /\ \A k \in 1..Len(AbsentRecords) :
                      /\ post_calls[k].url = all_issues[AbsentRecords[k]].url
                      /\ post_calls[k].ok = (returned[AbsentRecords[k]] # NoTicket))

C9_Witness ==
    /\ MainRan
    /\ pc = "done"
    /\ list_failed
    /\ Len(all_issues) = 2
    /\ Len(post_calls) = 2
    /\ ~post_calls[1].ok
    /\ post_calls[2].ok
    /\ returned[1] = NoTicket
    /\ returned[2] # NoTicket

\* C10: while main reconciles, a create_issue call makes no list call and
\* leaves the mapping as fetched; for a record whose URL is a key of the
\* mapping it returns the mapped id and makes no POST.
C10_MappingReadOnly ==
    [][ driver = "main" /\ pc = "reconciling" =>
           /\ existing_issues' = existing_issues
           /\ list_calls' = list_calls
           /\ (all_issues[idx].url \in DOMAIN existing_issues =>
                  /\ post_calls' = post_calls
                  /\ tracker' = tracker
                  /\ returned' = Append(returned,
                                        existing_issues[all_issues[idx].url])) ]_vars

C10_Witness ==
    /\ MainRan
    /\ pc = "done"
    /\ Len(all_issues) = 2
    /\ all_issues[1].url \in DOMAIN existing_issues
    /\ all_issues[2].url \notin DOMAIN existing_issues
    /\ returned[1] = existing_issues[all_issues[1].url]
    /\ list_calls = <<1>>
    /\ Len(post_calls) = 1
    /\ post_calls[1].ok

====
